---- MODULE Spec2Model ----
(***************************************************************************)
(* Host driver of the parallel quicksort (Quicksort/Sort/parallel.h):      *)
(* QuicksortParallelBase::memoryAllocate, minMaxReduction,                 *)
(* runQuickSortGlobalKernel, runQuickSortLocalKernel, quicksortParallel    *)
(* and memoryCopyAfterSort.  The device kernels and the sequence records   *)
(* (Kernels/*.h, data_types.h) are not part of parallel.h; they are        *)
(* modelled from the design document of the repository.                    *)
(*                                                                         *)
(* Arrays are functions over 0 .. arrayLength-1 (the program's indices).   *)
(* Values of the key-value mode are the original indices of their keys,    *)
(* so every (key, value) pair of an input is distinct.                     *)
(***************************************************************************)
EXTENDS Integers, Sequences, FiniteSets, TLC

VARIABLES
    tpl,                \* template arguments of QuicksortParallelBase
    arrayLength,        \* _arrayLength
    h_keys,             \* _h_keys: the caller's keys (never written by the sort)
    sortOrder,          \* _sortOrder: "ORDER_ASC" | "ORDER_DESC"
    sortingKeyOnly,     \* template argument of quicksortParallel
    d_keys,             \* primary device keys (K)
    d_values,           \* primary device values (V)
    d_keysBuffer,       \* _d_keysBuffer (K')
    d_valuesBuffer,     \* _d_valuesBuffer (V')
    d_valuesPivot,      \* _d_valuesPivot (P)
    h_minMaxValues,     \* _h_minMaxValues, the values copied back by minMaxReduction
    minVal, maxVal,     \* locals of quicksortParallel
    h_globalSeqHost,    \* live global sequences, entries 1 .. numSeqGlobal
    h_globalSeqDev,     \* host staging copy of the device records
    d_globalSeqDev,     \* device records, updated by the thread blocks
    h_globalSeqIndexes, \* thread block -> sequence index, entries 1 .. threadBlockCounter
    h_localSeq,         \* local sequences, entries 1 .. numSeqLocal
    numSeqGlobal, numSeqLocal, generateSequences,
    blocks,             \* per thread block of the running global kernel: its position
    pc,                 \* position of the host
    isDistributionZero, \* _isDistributionZero
    out_keys, out_values, \* host arrays after memoryCopyAfterSort
    sticky,             \* the device is in a sticky error state (a kernel faulted)
    failed,             \* history: some copy or launch has failed
    issuedAfterFailure, \* history: a copy or launch was issued after a failed one
    globalLaunched,     \* history: a global partition kernel was launched
    localLaunched,      \* history: the local partition kernel was launched
    initSeqEnqueued,    \* history: lines 404-408 enqueued the local sequence [0,N)
    numPivots,          \* history: number of indices finalized as pivot regions
    written,            \* history: output indices scattered to in the running wave
    clash,              \* history: two blocks scattered to the same output index
    waveKeys            \* history: the keys the running wave was launched on

vars == <<tpl, arrayLength, h_keys, sortOrder, sortingKeyOnly, d_keys, d_values,
          d_keysBuffer, d_valuesBuffer, d_valuesPivot, h_minMaxValues, minVal, maxVal,
          h_globalSeqHost, h_globalSeqDev, d_globalSeqDev, h_globalSeqIndexes,
          h_localSeq, numSeqGlobal, numSeqLocal, generateSequences, blocks, pc,
          isDistributionZero, out_keys, out_values, sticky, failed,
          issuedAfterFailure, globalLaunched, localLaunched, initSeqEnqueued,
          numPivots, written, clash, waveKeys>>

(***************************************************************************)
(* Bounds of the model.                                                    *)
(***************************************************************************)
\* Longest input of the exhaustive family.
MaxLen == 4

(***************************************************************************)
(* Small helpers.                                                          *)
(***************************************************************************)
Min2(a, b) == IF a <= b THEN a ELSE b
Max2(a, b) == IF a >= b THEN a ELSE b

\* (a - 1) / b + 1 as the code writes every rounded-up division (a >= 1).
CeilDiv(a, b) == ((a - 1) \div b) + 1

\* A device or host cell that was allocated and never written.
Uninit == -1

Indices == 0 .. (arrayLength - 1)

\* Template arguments read by the mode that is running.
thresholdPartitionGlobal ==
    IF sortingKeyOnly THEN tpl.threasholdPartitionGlobalKo
                      ELSE tpl.threasholdPartitionGlobalKv
threadsSortGlobal ==
    IF sortingKeyOnly THEN tpl.threadsSortGlobalKo ELSE tpl.threadsSortGlobalKv
elemsSortGlobal ==
    IF sortingKeyOnly THEN tpl.elemsSortGlobalKo ELSE tpl.elemsSortGlobalKv
elemsPerThreadBlock == threadsSortGlobal * elemsSortGlobal
numSeqLimit == CeilDiv(arrayLength, thresholdPartitionGlobal)

\* Key type: unsigned integers of tpl.keyBits bits.
KeyModulus == 2 ^ tpl.keyBits
MAX_VAL == KeyModulus - 1
MIN_VAL == 0

(***************************************************************************)
(* memoryAllocate: capacities of the metadata arrays.                      *)
(***************************************************************************)
minPartitionSizeGlobal ==
    Min2(tpl.threasholdPartitionGlobalKo, tpl.threasholdPartitionGlobalKv)
maxPartitionSizeGlobal ==
    Max2(tpl.threasholdPartitionGlobalKo, tpl.threasholdPartitionGlobalKv)
minElemsPerThreadBlock ==
    Min2(tpl.threadsSortGlobalKo * tpl.elemsSortGlobalKo,
         tpl.threadsSortGlobalKv * tpl.elemsSortGlobalKv)
maxNumSequences == 2 * CeilDiv(arrayLength, minPartitionSizeGlobal)
\* maxNumThreadBlocks without the factor maxNumSequences.
maxNumThreadBlocks_OneSeq == CeilDiv(maxPartitionSizeGlobal, minElemsPerThreadBlock)

maxNumThreadBlocks ==
    maxNumSequences * CeilDiv(maxPartitionSizeGlobal, minElemsPerThreadBlock)
\* Length of _h_minMaxValues.
minMaxCapacity == 2 * tpl.thresholdParallelReduction

(***************************************************************************)
(* Inputs.  The exhaustive family: every key array of length 1 .. MaxLen   *)
(* over the lower half of the key type, both orders, both modes.  The      *)
(* wrapping family: short arrays over the top of the key type.  The skewed *)
(* family: arrays of twice the global threshold whose keys halve the key   *)
(* range wave after wave, so that every global wave splits off one short   *)
(* child.  The wide and the long family are described where they are       *)
(* defined.                                                                *)
(***************************************************************************)
SmallTemplate ==
    [keyBits |-> 3,
     thresholdParallelReduction |-> 2, threadsReduction |-> 3, elemsReduction |-> 1,
     threasholdPartitionGlobalKo |-> 2, threasholdPartitionGlobalKv |-> 2,
     threadsSortGlobalKo |-> 2, elemsSortGlobalKo |-> 1,
     threadsSortGlobalKv |-> 1, elemsSortGlobalKv |-> 2]

SkewTemplate ==
    [keyBits |-> 6,
     thresholdParallelReduction |-> 8, threadsReduction |-> 4, elemsReduction |-> 2,
     threasholdPartitionGlobalKo |-> 4, threasholdPartitionGlobalKv |-> 5,
     threadsSortGlobalKo |-> 4, elemsSortGlobalKo |-> 1,
     threadsSortGlobalKv |-> 5, elemsSortGlobalKv |-> 1]

SkewLen == 2 * SkewTemplate.threasholdPartitionGlobalKo
\* Each key but the last is the only one below the midpoint of what follows it.
Staircase == <<0, 12, 18, 21, 23>>
\* The pivot of the first wave when the first and the last key are present.
SkewPivot == (Staircase[1] + Staircase[Len(Staircase)]) \div 2
SkewInputs ==
    { [i \in 0 .. (SkewLen - 1) |->
          IF i \notin S THEN Staircase[Len(Staircase)]
          ELSE IF i + 1 < Len(Staircase) THEN Staircase[i + 1] ELSE SkewPivot] :
      S \in SUBSET (0 .. (Len(Staircase) - 1)) }

\* Keys of the lower half of the key type: the sum of two of them does not wrap.
SmallInputs ==
    UNION { [0 .. (n - 1) -> 0 .. (2 ^ (SmallTemplate.keyBits - 1) - 1)] :
            n \in 1 .. MaxLen }

\* Keys of the upper half of the key type, one element more than the global
\* threshold: the sum of the smallest and the largest key wraps.
WrapInputs ==
    [0 .. SmallTemplate.threasholdPartitionGlobalKo ->
         (2 ^ SmallTemplate.keyBits - 3) .. (2 ^ SmallTemplate.keyBits - 1)]

\* The wide family: arrays whose first wave leaves two children longer than the
\* global threshold, so that the second wave runs two sequences.  The second wave
\* of the second base leaves a child longer than the threshold, a shorter child
\* and a child of no key at all.
WideTemplate ==
    [SmallTemplate EXCEPT !.keyBits = SmallTemplate.keyBits + 1,
                          !.thresholdParallelReduction = SmallTemplate.threadsReduction]
WideBases == {<<0, 4, 1, 5, 2, 6>>, <<0, 6, 1, 6, 1, 4, 6>>}
WideInputs ==
    { [i \in 0 .. (Len(base) - 1) |-> base[((i + r) % Len(base)) + 1]] :
      base \in WideBases, r \in {0, 1} }

\* The long family: arrays one element longer than thresholdParallelReduction
\* thread blocks of the reduction kernel cover, all keys equal but one.
LongLen ==
    SmallTemplate.thresholdParallelReduction
        * SmallTemplate.threadsReduction * SmallTemplate.elemsReduction + 1
LongInputs ==
    { [i \in 0 .. (LongLen - 1) |-> IF i = j THEN 1 ELSE 0] : j \in 0 .. (LongLen - 1) }

Orders == {"ORDER_ASC", "ORDER_DESC"}

\* State after memoryAllocate and the upload of the caller's arrays.
InitWith(t, keys, order, keyOnly) ==
    LET n == Cardinality(DOMAIN keys) IN
    /\ tpl = t
    /\ arrayLength = n
    /\ h_keys = keys
    /\ sortOrder = order
    /\ sortingKeyOnly = keyOnly
    /\ d_keys = keys
    /\ d_values = [i \in 0 .. (n - 1) |-> IF keyOnly THEN Uninit ELSE i]
    /\ d_keysBuffer = [i \in 0 .. (n - 1) |-> Uninit]
    /\ d_valuesBuffer = [i \in 0 .. (n - 1) |-> Uninit]
    /\ d_valuesPivot = [i \in 0 .. (n - 1) |-> Uninit]
    /\ h_minMaxValues = <<>>
    /\ minVal = Uninit
    /\ maxVal = Uninit
    /\ h_globalSeqHost = <<>>
    /\ h_globalSeqDev = <<>>
    /\ d_globalSeqDev = <<>>
    /\ h_globalSeqIndexes = <<>>
    /\ h_localSeq = <<>>
    /\ numSeqGlobal = 1
    /\ numSeqLocal = 0
    /\ generateSequences = FALSE
    /\ blocks = <<>>
    /\ pc = "start"
    /\ isDistributionZero = FALSE
    /\ out_keys = <<>>
    /\ out_values = <<>>
    /\ sticky = FALSE
    /\ failed = FALSE
    /\ issuedAfterFailure = FALSE
    /\ globalLaunched = FALSE
    /\ localLaunched = FALSE
    /\ initSeqEnqueued = FALSE
    /\ numPivots = 0
    /\ written = {}
    /\ clash = FALSE
    /\ waveKeys = <<>>

Init ==
    \/ \E keys \in SmallInputs, order \in Orders, keyOnly \in BOOLEAN :
           InitWith(SmallTemplate, keys, order, keyOnly)
    \/ \E keys \in WrapInputs, order \in Orders, keyOnly \in BOOLEAN :
           InitWith(SmallTemplate, keys, order, keyOnly)
    \/ \E keys \in SkewInputs, order \in Orders, keyOnly \in BOOLEAN :
           InitWith(SkewTemplate, keys, order, keyOnly)
    \/ \E keys \in WideInputs, order \in Orders, keyOnly \in BOOLEAN :
           InitWith(WideTemplate, keys, order, keyOnly)
    \/ \E keys \in LongInputs, order \in Orders, keyOnly \in BOOLEAN :
           InitWith(SmallTemplate, keys, order, keyOnly)

(***************************************************************************)
(* Range reducer.                                                          *)
(***************************************************************************)
RECURSIVE RangeMin(_, _, _)
RangeMin(a, lo, hi) ==
    IF lo > hi THEN MAX_VAL ELSE Min2(a[lo], RangeMin(a, lo + 1, hi))

RECURSIVE RangeMax(_, _, _)
RangeMax(a, lo, hi) ==
    IF lo > hi THEN MIN_VAL ELSE Max2(a[lo], RangeMax(a, lo + 1, hi))

\* runMinMaxReductionKernel: dimGrid.x.
reductionGridDim ==
    CeilDiv(arrayLength, tpl.threadsReduction * tpl.elemsReduction)

\* minMaxReductionKernel: block g reduces its chunk of threads*elems keys; the grid
\* leaves gridDim minima followed by gridDim maxima.
minMaxReductionKernel(keys) ==
    LET g == reductionGridDim
        e == tpl.threadsReduction * tpl.elemsReduction
    IN [i \in 1 .. (2 * g) |->
           IF i <= g
           THEN RangeMin(keys, (i - 1) * e, Min2(i * e, arrayLength) - 1)
           ELSE RangeMax(keys, (i - g - 1) * e, Min2((i - g) * e, arrayLength) - 1)]

RECURSIVE FoldMin(_, _, _, _)
FoldMin(s, i, n, acc) ==
    IF i > n THEN acc ELSE FoldMin(s, i + 1, n, Min2(acc, s[i]))

RECURSIVE FoldMax(_, _, _, _)
FoldMax(s, i, n, acc) ==
    IF i > n THEN acc ELSE FoldMax(s, i + 1, n, Max2(acc, s[i]))

\* minMaxReduction with the host loop of lines 200-204 left out: the pair of the
\* first thread block is taken for the result.
minMaxReduction_FirstBlockOnly(keys, values) ==
    IF arrayLength > tpl.thresholdParallelReduction
    THEN <<Min2(MAX_VAL, values[1]), Max2(MIN_VAL, values[reductionGridDim + 1])>>
    ELSE <<RangeMin(keys, 0, arrayLength - 1), RangeMax(keys, 0, arrayLength - 1)>>

\* minMaxReduction: <<minVal, maxVal>>; `values` is what the copy at line 191 read.
minMaxReduction(keys, values) ==
    IF arrayLength > tpl.thresholdParallelReduction
    THEN LET numValues == reductionGridDim
         IN <<FoldMin(values, 1, numValues, MAX_VAL),
              FoldMax(values, numValues + 1, 2 * numValues, MIN_VAL)>>
    ELSE <<RangeMin(keys, 0, arrayLength - 1), RangeMax(keys, 0, arrayLength - 1)>>

\* h_glob_seq_t::setInitSeq.
HostInitSeq(len, mn, mx) ==
    [start |-> 0, length |-> len, minVal |-> mn, maxVal |-> mx,
     direction |-> "PRIMARY_MEM_TO_BUFFER"]

\* Line 328 with >= for >.
GenerateSequencesInit_Geq == arrayLength >= thresholdPartitionGlobal

\* Line 328.
GenerateSequencesInit == arrayLength > thresholdPartitionGlobal

\* Line 334 with the test left out.
IsNullDistribution_Never(mn, mx) == FALSE

\* Line 334: null/zero distribution.
IsNullDistribution(mn, mx) == mn = mx

\* quicksortParallel, lines 320-338: range reduction, null-distribution test and the
\* initial sequence.  outcome: "ok", "fault" (the reduction kernel faults; the copy
\* at line 191 is issued and reports it), "copy" (that copy fails) or, when the copy
\* writes past the end of h_minMaxValues, "crash" (otherwise the values past the
\* end land in the slack of the allocation).
Reduce ==
    /\ pc = "start"
    /\ LET device == arrayLength > tpl.thresholdParallelReduction
           values == IF device THEN minMaxReductionKernel(d_keys) ELSE <<>>
           mm == minMaxReduction(h_keys, values)
           overflow == device /\ Len(values) > minMaxCapacity
       IN \E outcome \in (IF device THEN {"ok", "fault", "copy"} ELSE {"ok"})
                            \cup (IF overflow THEN {"crash"} ELSE {}) :
          IF outcome = "ok"
          THEN /\ h_minMaxValues' = values
               /\ d_keysBuffer' =
                      [i \in Indices |->
                          IF i < Len(values) THEN values[i + 1] ELSE d_keysBuffer[i]]
               /\ minVal' = mm[1]
               /\ maxVal' = mm[2]
               /\ generateSequences' = GenerateSequencesInit
               /\ IF IsNullDistribution(mm[1], mm[2])
                  THEN /\ isDistributionZero' = TRUE
                       /\ pc' = "return"
                       /\ UNCHANGED h_globalSeqHost
                  ELSE /\ isDistributionZero' = FALSE
                       /\ pc' = "loop"
                       /\ h_globalSeqHost' = <<HostInitSeq(arrayLength, mm[1], mm[2])>>
               /\ UNCHANGED <<failed, issuedAfterFailure, sticky>>
          ELSE /\ pc' = IF outcome = "crash" THEN "crashed" ELSE "error"
               /\ failed' = (outcome # "crash")
               /\ sticky' = (outcome = "fault")
               /\ issuedAfterFailure' = (outcome = "fault")
               /\ UNCHANGED <<h_minMaxValues, d_keysBuffer, minVal, maxVal,
                              generateSequences, isDistributionZero, h_globalSeqHost>>
    /\ UNCHANGED <<tpl, arrayLength, h_keys, sortOrder, sortingKeyOnly, d_keys, d_values,
                   d_valuesBuffer, d_valuesPivot, h_globalSeqDev, d_globalSeqDev,
                   h_globalSeqIndexes, h_localSeq, numSeqGlobal, numSeqLocal, blocks,
                   out_keys, out_values, globalLaunched, localLaunched,
                   initSeqEnqueued, numPivots, written, clash, waveKeys>>

(***************************************************************************)
(* Global partition stage.                                                 *)
(***************************************************************************)
\* Pivot of d_glob_seq_t::setFromHostSeq: the midpoint, in the key type's arithmetic.
Pivot(mn, mx) == ((mn + mx) % KeyModulus) \div 2

\* d_glob_seq_t::setFromHostSeq.
DevFromHostSeq(h, startThreadBlockIdx, threadBlocksPerSeq) ==
    [start |-> h.start, length |-> h.length, pivot |-> Pivot(h.minVal, h.maxVal),
     direction |-> h.direction,
     offsetLower |-> 0, offsetGreater |-> 0, offsetPivotValues |-> 0,
     startThreadBlockIdx |-> startThreadBlockIdx,
     threadBlockCounter |-> threadBlocksPerSeq]

\* Line 348 with the division rounded down.
threadBlocksPerSeq_Floor(h) == Max2(h.length \div elemsPerThreadBlock, 1)

\* Line 348.
threadBlocksPerSeq(h) == CeilDiv(h.length, elemsPerThreadBlock)

\* Lines 343-358 with the running threadBlockCounter handed to setFromHostSeq
\* where the blocks of the sequence are meant.
RECURSIVE AssignBlocks_RunningCounter(_, _, _, _)
AssignBlocks_RunningCounter(hostSeqs, seqIdx, devs, idx) ==
    IF seqIdx > Len(hostSeqs) THEN <<devs, idx>>
    ELSE LET h == hostSeqs[seqIdx]
             n == threadBlocksPerSeq(h)
         IN AssignBlocks_RunningCounter(hostSeqs, seqIdx + 1,
                Append(devs, DevFromHostSeq(h, Len(idx), Len(idx) + n)),
                idx \o [b \in 1 .. n |-> seqIdx - 1])

\* Lines 343-358: <<device records, block-to-sequence vector>> for the host
\* sequences seqIdx .. numSeq (1-based here), threadBlockCounter being the length
\* of the vector so far.
RECURSIVE AssignBlocks(_, _, _, _)
AssignBlocks(hostSeqs, seqIdx, devs, idx) ==
    IF seqIdx > Len(hostSeqs) THEN <<devs, idx>>
    ELSE LET h == hostSeqs[seqIdx]
             n == threadBlocksPerSeq(h)
         IN AssignBlocks(hostSeqs, seqIdx + 1,
                Append(devs, DevFromHostSeq(h, Len(idx), n)),
                idx \o [b \in 1 .. n |-> seqIdx - 1])

\* The side a sequence reads and the side it scatters to.
InputKeys(direction) ==
    IF direction = "PRIMARY_MEM_TO_BUFFER" THEN d_keys ELSE d_keysBuffer
InputValues(direction) ==
    IF direction = "PRIMARY_MEM_TO_BUFFER" THEN d_values ELSE d_valuesBuffer
OutputKeys(direction) ==
    IF direction = "PRIMARY_MEM_TO_BUFFER" THEN d_keysBuffer ELSE d_keys

\* The keys a wave is launched on: at every index of a sequence of the wave the key
\* on the input side of that sequence.
WaveInput(devs) ==
    [i \in Indices |->
        IF \E s \in DOMAIN devs : devs[s].start <= i /\ i < devs[s].start + devs[s].length
        THEN LET s == CHOOSE s \in DOMAIN devs :
                          devs[s].start <= i /\ i < devs[s].start + devs[s].length
             IN InputKeys(devs[s].direction)[i]
        ELSE Uninit]

\* Lines 341-363 up to the kernel launch of runQuickSortGlobalKernel.  outcome:
\* "ok", "copy" (a host-to-device copy fails) or "fault" (the kernel faults; the
\* copy at line 262 is issued and reports it).
GlobalLaunch ==
    /\ pc = "loop"
    /\ generateSequences
    /\ LET a == AssignBlocks(SubSeq(h_globalSeqHost, 1, numSeqGlobal), 1, <<>>, <<>>)
       IN \E outcome \in {"ok", "copy", "fault"} :
          /\ h_globalSeqDev' = a[1]
          /\ h_globalSeqIndexes' = a[2]
          /\ waveKeys' = WaveInput(a[1])
          /\ IF outcome = "ok"
             THEN /\ d_globalSeqDev' = a[1]
                  /\ blocks' = [b \in 1 .. Len(a[2]) |->
                                   [pc |-> "partition", last |-> FALSE]]
                  /\ pc' = "wave"
                  /\ globalLaunched' = TRUE
                  /\ UNCHANGED <<failed, issuedAfterFailure, sticky>>
             ELSE /\ pc' = "error"
                  /\ failed' = TRUE
                  /\ sticky' = (outcome = "fault")
                  /\ issuedAfterFailure' = (issuedAfterFailure \/ outcome = "fault")
                  /\ globalLaunched' = (globalLaunched \/ outcome = "fault")
                  /\ UNCHANGED <<d_globalSeqDev, blocks>>
    /\ written' = {}
    /\ UNCHANGED <<tpl, arrayLength, h_keys, sortOrder, sortingKeyOnly, d_keys, d_values,
                   d_keysBuffer, d_valuesBuffer, d_valuesPivot, h_minMaxValues, minVal,
                   maxVal, h_globalSeqHost, h_localSeq, numSeqGlobal, numSeqLocal,
                   generateSequences, isDistributionZero, out_keys, out_values,
                   localLaunched, initSeqEnqueued, numPivots, clash>>

\* Comparison of the partition kernels for the running order: the keys that go to
\* the front of the sequence, and those that go to its back.
IsLower(key, pivot) == IF sortOrder = "ORDER_ASC" THEN key < pivot ELSE key > pivot
IsGreater(key, pivot) == IF sortOrder = "ORDER_ASC" THEN key > pivot ELSE key < pivot

\* The indices of the chunk of thread block b (1-based) of the running wave.
ChunkOf(b) ==
    LET seq == d_globalSeqDev[h_globalSeqIndexes[b] + 1]
        localBlockIdx == (b - 1) - seq.startThreadBlockIdx
        offset == localBlockIdx * elemsPerThreadBlock
        localLength == IF offset + elemsPerThreadBlock <= seq.length
                       THEN elemsPerThreadBlock ELSE seq.length - offset
    IN [j \in 1 .. localLength |-> seq.start + offset + j - 1]

\* A reservation that is not atomic: every block starts at the front.
ReserveLower_NotAtomic(seq, count) == 0

\* atomicAdd on offsetLower / offsetGreater: the value the block gets back.
ReserveLower(seq, count) == seq.offsetLower
ReserveGreater(seq, count) == seq.offsetGreater

\* The array `out` after a block scattered: the lower keys of its chunk forwards
\* from `lowerAt`, the greater keys backwards from `greaterAt`.
Scattered(out, in, lower, greater, lowerAt, greaterAt) ==
    [i \in DOMAIN out |->
        IF \E j \in 1 .. Len(lower) : lowerAt + j - 1 = i
        THEN in[lower[i - lowerAt + 1]]
        ELSE IF \E j \in 1 .. Len(greater) : greaterAt - (j - 1) = i
             THEN in[greater[greaterAt - i + 1]]
             ELSE out[i]]

\* Count, reserve and scatter of one thread block.  The block counts the keys of
\* its chunk on each side of the pivot, atomically adds the counts to the counters
\* of its sequence (the values before the addition are where its keys start), and
\* writes each key (and value) to the place it reserved on the output side; the
\* values of pivot keys are staged in d_valuesPivot.  The count reads only the
\* input side and the scatter writes only places no other block reserved, so the
\* three phases are one step: what the blocks interleave on is the order of their
\* atomic additions and of their exits.
BlockPartition(b) ==
    /\ pc = "wave"
    /\ blocks[b].pc = "partition"
    /\ LET s == h_globalSeqIndexes[b] + 1
           seq == d_globalSeqDev[s]
           toBuffer == seq.direction = "PRIMARY_MEM_TO_BUFFER"
           inK == InputKeys(seq.direction)
           inV == InputValues(seq.direction)
           chunk == ChunkOf(b)
           lower == SelectSeq(chunk, LAMBDA i : IsLower(inK[i], seq.pivot))
           greater == SelectSeq(chunk, LAMBDA i : IsGreater(inK[i], seq.pivot))
           pivots == SelectSeq(chunk, LAMBDA i : inK[i] = seq.pivot)
           lowerAt == seq.start + ReserveLower(seq, Len(lower))
           greaterAt == seq.start + seq.length - 1 - ReserveGreater(seq, Len(greater))
           pivotAt == seq.start + seq.offsetPivotValues
           targets == {lowerAt + j - 1 : j \in 1 .. Len(lower)}
                          \cup {greaterAt - (j - 1) : j \in 1 .. Len(greater)}
       IN /\ IF toBuffer
             THEN /\ d_keysBuffer' =
                         Scattered(d_keysBuffer, inK, lower, greater, lowerAt, greaterAt)
                  /\ d_valuesBuffer' =
                         IF sortingKeyOnly THEN d_valuesBuffer
                         ELSE Scattered(d_valuesBuffer, inV, lower, greater,
                                        lowerAt, greaterAt)
                  /\ UNCHANGED <<d_keys, d_values>>
             ELSE /\ d_keys' = Scattered(d_keys, inK, lower, greater, lowerAt, greaterAt)
                  /\ d_values' =
                         IF sortingKeyOnly THEN d_values
                         ELSE Scattered(d_values, inV, lower, greater, lowerAt, greaterAt)
                  /\ UNCHANGED <<d_keysBuffer, d_valuesBuffer>>
          /\ d_valuesPivot' =
                 IF sortingKeyOnly THEN d_valuesPivot
                 ELSE [i \in DOMAIN d_valuesPivot |->
                          IF \E j \in 1 .. Len(pivots) : pivotAt + j - 1 = i
                          THEN inV[pivots[i - pivotAt + 1]] ELSE d_valuesPivot[i]]
          /\ written' = written \cup targets
          /\ clash' = (clash \/ (targets \cap written) # {}
                             \/ Cardinality(targets) # Len(lower) + Len(greater))
          /\ d_globalSeqDev' = [d_globalSeqDev EXCEPT
                 ![s].offsetLower = @ + Len(lower),
                 ![s].offsetGreater = @ + Len(greater),
                 ![s].offsetPivotValues = @ + Len(pivots)]
    /\ blocks' = [blocks EXCEPT ![b].pc = "exit"]
    /\ UNCHANGED <<tpl, arrayLength, h_keys, sortOrder, sortingKeyOnly, h_minMaxValues,
                   minVal, maxVal, h_globalSeqHost, h_globalSeqDev,
                   h_globalSeqIndexes, h_localSeq, numSeqGlobal, numSeqLocal,
                   generateSequences, pc, isDistributionZero, out_keys, out_values,
                   sticky, failed, issuedAfterFailure, globalLaunched, localLaunched,
                   initSeqEnqueued, numPivots, waveKeys>>

\* Exit: the block decrements the blocks-remaining counter of its sequence; the
\* block that brings it to zero stores the pivots between the two partitions of
\* the buffer arrays (keys, and the staged values in key-value mode).
BlockExit(b) ==
    /\ pc = "wave"
    /\ blocks[b].pc = "exit"
    /\ LET s == h_globalSeqIndexes[b] + 1
           seq == d_globalSeqDev[s]
           remaining == seq.threadBlockCounter - 1
           first == seq.start + seq.offsetLower
           end == seq.start + seq.length - seq.offsetGreater
       IN /\ d_globalSeqDev' = [d_globalSeqDev EXCEPT ![s].threadBlockCounter = remaining]
          /\ IF remaining = 0
             THEN /\ d_keysBuffer' =
                         [i \in DOMAIN d_keysBuffer |->
                             IF first <= i /\ i < end THEN seq.pivot ELSE d_keysBuffer[i]]
                  /\ d_valuesBuffer' =
                         IF sortingKeyOnly THEN d_valuesBuffer
                         ELSE [i \in DOMAIN d_valuesBuffer |->
                                  IF first <= i /\ i < end
                                  THEN d_valuesPivot[seq.start + (i - first)]
                                  ELSE d_valuesBuffer[i]]
                  /\ numPivots' = numPivots + Max2(end - first, 0)
             ELSE UNCHANGED <<d_keysBuffer, d_valuesBuffer, numPivots>>
    /\ blocks' = [blocks EXCEPT ![b] =
                     [pc |-> "done",
                      last |-> (d_globalSeqDev[h_globalSeqIndexes[b] + 1].threadBlockCounter
                                    - 1 = 0)]]
    /\ UNCHANGED <<tpl, arrayLength, h_keys, sortOrder, sortingKeyOnly, d_keys, d_values,
                   d_valuesPivot, h_minMaxValues, minVal, maxVal, h_globalSeqHost,
                   h_globalSeqDev, h_globalSeqIndexes, h_localSeq, numSeqGlobal,
                   numSeqLocal, generateSequences, pc, isDistributionZero, out_keys,
                   out_values, sticky, failed, issuedAfterFailure, globalLaunched,
                   localLaunched, initSeqEnqueued, written, clash, waveKeys>>

(***************************************************************************)
(* Partition dispatcher.                                                   *)
(***************************************************************************)
Flip(direction) ==
    IF direction = "PRIMARY_MEM_TO_BUFFER"
    THEN "BUFFER_TO_PRIMARY_MEM" ELSE "PRIMARY_MEM_TO_BUFFER"

\* h_glob_seq_t::setLowerSeq / setGreaterSeq: the child at the front (back) of the
\* parent, its key range refined to the keys the wave put there.
HostLowerSeq(seqHost, seqDev) ==
    LET first == seqHost.start
        last == seqHost.start + seqDev.offsetLower - 1
        out == OutputKeys(seqHost.direction)
    IN [start |-> first, length |-> seqDev.offsetLower,
        minVal |-> RangeMin(out, first, last), maxVal |-> RangeMax(out, first, last),
        direction |-> Flip(seqHost.direction)]

HostGreaterSeq(seqHost, seqDev) ==
    LET first == seqHost.start + seqHost.length - seqDev.offsetGreater
        last == seqHost.start + seqHost.length - 1
        out == OutputKeys(seqHost.direction)
    IN [start |-> first, length |-> seqDev.offsetGreater,
        minVal |-> RangeMin(out, first, last), maxVal |-> RangeMax(out, first, last),
        direction |-> Flip(seqHost.direction)]

\* loc_seq_t::setLowerSeq / setGreaterSeq / setInitSeq.
LocalLowerSeq(seqHost, seqDev) ==
    [start |-> seqHost.start, length |-> seqDev.offsetLower,
     direction |-> Flip(seqHost.direction)]

LocalGreaterSeq(seqHost, seqDev) ==
    [start |-> seqHost.start + seqHost.length - seqDev.offsetGreater,
     length |-> seqDev.offsetGreater, direction |-> Flip(seqHost.direction)]

LocalInitSeq(len) ==
    [start |-> 0, length |-> len, direction |-> "PRIMARY_MEM_TO_BUFFER"]

\* Lines 375-383 with a child of one element dropped.
RouteLower_DropsSingle(seqDev, numGlobal) ==
    IF seqDev.offsetLower > thresholdPartitionGlobal /\ numGlobal < numSeqLimit
    THEN "global"
    ELSE IF seqDev.offsetLower > 1 THEN "local" ELSE "none"

\* Lines 375-383: where the lower child goes.
RouteLower(seqDev, numGlobal) ==
    IF seqDev.offsetLower > thresholdPartitionGlobal /\ numGlobal < numSeqLimit
    THEN "global"
    ELSE IF seqDev.offsetLower > 0 THEN "local" ELSE "none"

\* Lines 385-393 with a child of at most the threshold left out of the local list.
RouteGreater_NoLocal(seqDev, numGlobal) ==
    IF seqDev.offsetGreater > thresholdPartitionGlobal /\ numGlobal < numSeqLimit
    THEN "global"
    ELSE "none"

\* Lines 385-393 with the sequences of the local list counted against the limit.
RouteGreater_CountsLocal(seqDev, numGlobal) ==
    IF seqDev.offsetGreater > thresholdPartitionGlobal
           /\ numGlobal + numSeqLocal < numSeqLimit
    THEN "global"
    ELSE IF seqDev.offsetGreater > 0 THEN "local" ELSE "none"

\* Lines 385-393 with >= for > in the test against the threshold.
RouteGreater_AtThreshold(seqDev, numGlobal) ==
    IF seqDev.offsetGreater >= thresholdPartitionGlobal /\ numGlobal < numSeqLimit
    THEN "global"
    ELSE IF seqDev.offsetGreater > 0 THEN "local" ELSE "none"

\* Lines 385-393: where the greater child goes.
RouteGreater(seqDev, numGlobal) ==
    IF seqDev.offsetGreater > thresholdPartitionGlobal /\ numGlobal < numSeqLimit
    THEN "global"
    ELSE IF seqDev.offsetGreater > 0 THEN "local" ELSE "none"

\* Lines 370-394: <<h_globalSeqHostBuffer, h_localSeq>> after the parents
\* seqIdx .. Len(hostSeqs) were handled.
RECURSIVE Dispatch(_, _, _, _, _)
Dispatch(hostSeqs, devSeqs, seqIdx, glob, loc) ==
    IF seqIdx > Len(hostSeqs) THEN <<glob, loc>>
    ELSE LET seqHost == hostSeqs[seqIdx]
             seqDev == devSeqs[seqIdx]
             rl == RouteLower(seqDev, Len(glob))
             glob1 == IF rl = "global"
                      THEN Append(glob, HostLowerSeq(seqHost, seqDev)) ELSE glob
             loc1 == IF rl = "local"
                     THEN Append(loc, LocalLowerSeq(seqHost, seqDev)) ELSE loc
             rg == RouteGreater(seqDev, Len(glob1))
             glob2 == IF rg = "global"
                      THEN Append(glob1, HostGreaterSeq(seqHost, seqDev)) ELSE glob1
             loc2 == IF rg = "local"
                     THEN Append(loc1, LocalGreaterSeq(seqHost, seqDev)) ELSE loc1
         IN Dispatch(hostSeqs, devSeqs, seqIdx + 1, glob2, loc2)

\* Line 400 with the limit taken one too low.
ContinueGlobal_LimitOffByOne(gen, numGlobal) ==
    gen /\ numGlobal < numSeqLimit - 1 /\ numGlobal > 0

\* Line 400.
ContinueGlobal(gen, numGlobal) == gen /\ numGlobal < numSeqLimit /\ numGlobal > 0

\* runQuickSortGlobalKernel from line 262 and quicksortParallel lines 365-400: the
\* records come back and every parent is split.  outcome: "ok", "copy" (the copy at
\* line 262 fails) or, when a record is written past the end of its array,
\* "crash" (otherwise that write lands in the slack of the allocation).
GlobalHarvest ==
    /\ pc = "wave"
    /\ \A b \in DOMAIN blocks : blocks[b].pc = "done"
    /\ LET r == Dispatch(SubSeq(h_globalSeqHost, 1, numSeqGlobal), d_globalSeqDev, 1,
                         <<>>, h_localSeq)
           overflow == Len(r[1]) > maxNumSequences \/ Len(r[2]) > maxNumSequences
       IN \E outcome \in {"ok", "copy"} \cup (IF overflow THEN {"crash"} ELSE {}) :
          IF outcome = "ok"
          THEN /\ h_globalSeqDev' = d_globalSeqDev
               /\ h_globalSeqHost' = r[1]
               /\ numSeqGlobal' = Len(r[1])
               /\ h_localSeq' = r[2]
               /\ numSeqLocal' = Len(r[2])
               /\ generateSequences' = ContinueGlobal(generateSequences, Len(r[1]))
               /\ pc' = "loop"
               /\ UNCHANGED <<failed, issuedAfterFailure>>
          ELSE /\ pc' = IF outcome = "crash" THEN "crashed" ELSE "error"
               /\ failed' = (failed \/ outcome = "copy")
               /\ issuedAfterFailure' = (issuedAfterFailure \/ failed)
               /\ UNCHANGED <<h_globalSeqDev, h_globalSeqHost, numSeqGlobal, h_localSeq,
                              numSeqLocal, generateSequences>>
    /\ blocks' = <<>>
    /\ written' = {}
    /\ waveKeys' = <<>>
    /\ UNCHANGED <<tpl, arrayLength, h_keys, sortOrder, sortingKeyOnly, d_keys, d_values,
                   d_keysBuffer, d_valuesBuffer, d_valuesPivot, h_minMaxValues, minVal,
                   maxVal, d_globalSeqDev, h_globalSeqIndexes, isDistributionZero,
                   out_keys, out_values, sticky, globalLaunched, localLaunched,
                   initSeqEnqueued, numPivots, clash>>

(***************************************************************************)
(* Local partition stage.                                                  *)
(***************************************************************************)
\* Line 404 with < for <=.
InitLocalNeeded_Less == arrayLength < thresholdPartitionGlobal

\* Line 404: the global stage was not used.
InitLocalNeeded == arrayLength <= thresholdPartitionGlobal

\* Lines 403-412 and runQuickSortLocalKernel: the initial local sequence when the
\* global stage was not used, the copy of the records and the launch.  A grid of
\* zero blocks is an invalid launch configuration: the launch fails and nothing
\* reads its status.  outcome: "ok" or "copy" (the copy at line 289 fails).
LocalLaunch ==
    /\ pc = "loop"
    /\ ~generateSequences
    /\ LET init == InitLocalNeeded
           n == IF init THEN numSeqLocal + 1 ELSE numSeqLocal
           loc == IF ~init THEN h_localSeq
                  ELSE IF h_localSeq = <<>> THEN <<LocalInitSeq(arrayLength)>>
                  ELSE [h_localSeq EXCEPT ![1] = LocalInitSeq(arrayLength)]
       IN \E outcome \in {"ok", "copy"} :
          /\ numSeqLocal' = n
          /\ h_localSeq' = loc
          /\ initSeqEnqueued' = init
          /\ IF outcome = "ok"
             THEN /\ localLaunched' = TRUE
                  /\ pc' = IF n = 0 THEN "return" ELSE "localkernel"
                  /\ failed' = (failed \/ n = 0)
                  /\ issuedAfterFailure' = (issuedAfterFailure \/ failed)
             ELSE /\ pc' = "error"
                  /\ failed' = TRUE
                  /\ issuedAfterFailure' = (issuedAfterFailure \/ failed)
                  /\ UNCHANGED localLaunched
    /\ UNCHANGED <<tpl, arrayLength, h_keys, sortOrder, sortingKeyOnly, d_keys, d_values,
                   d_keysBuffer, d_valuesBuffer, d_valuesPivot, h_minMaxValues, minVal,
                   maxVal, h_globalSeqHost, h_globalSeqDev, d_globalSeqDev,
                   h_globalSeqIndexes, numSeqGlobal, generateSequences, blocks,
                   isDistributionZero, out_keys, out_values, sticky, globalLaunched,
                   numPivots, written, clash, waveKeys>>

\* Order of the sorted output.
InOrder(k1, k2) == IF sortOrder = "ORDER_ASC" THEN k1 <= k2 ELSE k1 >= k2

RECURSIVE InsertPair(_, _)
InsertPair(sorted, p) ==
    IF sorted = <<>> THEN <<p>>
    ELSE IF InOrder(sorted[1][1], p[1])
         THEN <<sorted[1]>> \o InsertPair(Tail(sorted), p)
         ELSE <<p>> \o sorted

RECURSIVE SortPairs(_)
SortPairs(ps) ==
    IF ps = <<>> THEN <<>>
    ELSE InsertPair(SortPairs(SubSeq(ps, 1, Len(ps) - 1)), ps[Len(ps)])

\* quickSortLocalKernel: block k sorts its sequence, read from the side its
\* direction names, and leaves the sorted keys (and values) in the buffer arrays.
\* <<d_keysBuffer, d_valuesBuffer>> after blocks k .. Len(locSeqs).
RECURSIVE LocalSorted(_, _, _, _)
LocalSorted(locSeqs, k, bufK, bufV) ==
    IF k > Len(locSeqs) THEN <<bufK, bufV>>
    ELSE LET seq == locSeqs[k]
             toBuffer == seq.direction = "PRIMARY_MEM_TO_BUFFER"
             inK == IF toBuffer THEN d_keys ELSE bufK
             inV == IF toBuffer THEN d_values ELSE bufV
             ps == SortPairs([j \in 1 .. seq.length |->
                                 <<inK[seq.start + j - 1], inV[seq.start + j - 1]>>])
             covers(i) == seq.start <= i /\ i < seq.start + seq.length
         IN LocalSorted(locSeqs, k + 1,
                [i \in DOMAIN bufK |->
                    IF covers(i) THEN ps[i - seq.start + 1][1] ELSE bufK[i]],
                [i \in DOMAIN bufV |->
                    IF covers(i) /\ ~sortingKeyOnly
                    THEN ps[i - seq.start + 1][2] ELSE bufV[i]])

\* The local kernel runs, one block per local sequence, and quicksortParallel
\* returns false.  outcome: "ok" or "fault" (the kernel faults; nothing reads the
\* status before memoryCopyAfterSort).
LocalKernel ==
    /\ pc = "localkernel"
    /\ \E outcome \in {"ok", "fault"} :
          IF outcome = "ok"
          THEN LET r == LocalSorted(SubSeq(h_localSeq, 1, numSeqLocal), 1,
                                    d_keysBuffer, d_valuesBuffer)
               IN /\ d_keysBuffer' = r[1]
                  /\ d_valuesBuffer' = r[2]
                  /\ UNCHANGED <<sticky, failed>>
          ELSE /\ sticky' = TRUE
               /\ failed' = TRUE
               /\ UNCHANGED <<d_keysBuffer, d_valuesBuffer>>
    /\ pc' = "return"
    /\ UNCHANGED <<tpl, arrayLength, h_keys, sortOrder, sortingKeyOnly, d_keys, d_values,
                   d_valuesPivot, h_minMaxValues, minVal, maxVal, h_globalSeqHost,
                   h_globalSeqDev, d_globalSeqDev, h_globalSeqIndexes, h_localSeq,
                   numSeqGlobal, numSeqLocal, generateSequences, blocks,
                   isDistributionZero, out_keys, out_values, issuedAfterFailure,
                   globalLaunched, localLaunched, initSeqEnqueued, numPivots, written,
                   clash, waveKeys>>

(***************************************************************************)
(* Download.                                                               *)
(***************************************************************************)
\* memoryCopyAfterSort copying the primary keys whatever the distribution.
DownloadKeys_Primary == d_keys

\* memoryCopyAfterSort: the device arrays that are copied to the caller.
DownloadKeys == IF isDistributionZero THEN d_keys ELSE d_keysBuffer
DownloadValues == IF isDistributionZero THEN d_values ELSE d_valuesBuffer

\* memoryCopyAfterSort.  outcome: "ok" or "copy" (a device-to-host copy fails); a
\* sticky device error is reported by the first copy.
CopyAfterSort ==
    /\ pc = "return"
    /\ issuedAfterFailure' = (issuedAfterFailure \/ failed)
    /\ \E outcome \in (IF sticky THEN {"copy"} ELSE {"ok", "copy"}) :
          IF outcome = "ok"
          THEN /\ out_keys' = DownloadKeys
               /\ out_values' = IF sortingKeyOnly THEN <<>> ELSE DownloadValues
               /\ pc' = "done"
               /\ UNCHANGED failed
          ELSE /\ pc' = "error"
               /\ failed' = TRUE
               /\ UNCHANGED <<out_keys, out_values>>
    /\ UNCHANGED <<tpl, arrayLength, h_keys, sortOrder, sortingKeyOnly, d_keys, d_values,
                   d_keysBuffer, d_valuesBuffer, d_valuesPivot, h_minMaxValues, minVal,
                   maxVal, h_globalSeqHost, h_globalSeqDev, d_globalSeqDev,
                   h_globalSeqIndexes, h_localSeq, numSeqGlobal, numSeqLocal,
                   generateSequences, blocks, isDistributionZero, sticky,
                   globalLaunched, localLaunched, initSeqEnqueued, numPivots, written,
                   clash, waveKeys>>

(***************************************************************************)
(* The sort call.                                                          *)
(***************************************************************************)
Next ==
    \/ Reduce
    \/ GlobalLaunch
    \/ \E b \in DOMAIN blocks : BlockPartition(b)
    \/ \E b \in DOMAIN blocks : BlockExit(b)
    \/ GlobalHarvest
    \/ LocalLaunch
    \/ LocalKernel
    \/ CopyAfterSort

Spec == Init /\ [][Next]_vars

\* The sort calls on the wrapping and on the long family.
FairInit ==
    \/ \E keys \in WrapInputs, order \in Orders, keyOnly \in BOOLEAN :
           InitWith(SmallTemplate, keys, order, keyOnly)
    \/ \E keys \in LongInputs, order \in Orders, keyOnly \in BOOLEAN :
           InitWith(SmallTemplate, keys, order, keyOnly)

\* The host runs one thread and the device schedules every block of a launched
\* grid: a step that can be taken is taken.
FairSpec == FairInit /\ [][Next]_vars /\ WF_vars(Next)

(***************************************************************************)
(* Properties.                                                             *)
(***************************************************************************)
Count(a, v) == Cardinality({i \in DOMAIN a : a[i] = v})

AllKeysEqual == \A i, j \in DOMAIN h_keys : h_keys[i] = h_keys[j]

\* The key of rank i of the input in the requested order.
SortedKeyAt(i) ==
    CHOOSE v \in {h_keys[j] : j \in DOMAIN h_keys} :
        LET before == Cardinality({j \in DOMAIN h_keys :
                          IF sortOrder = "ORDER_ASC" THEN h_keys[j] < v
                                                     ELSE h_keys[j] > v})
        IN before <= i /\ i < before + Count(h_keys, v)

C2_OutputPermutation ==
    pc = "done" =>
        /\ DOMAIN out_keys = DOMAIN h_keys
        /\ \A v \in {h_keys[j] : j \in DOMAIN h_keys} \cup {out_keys[j] : j \in DOMAIN out_keys} :
               Count(out_keys, v) = Count(h_keys, v)
        /\ ~sortingKeyOnly =>
               /\ DOMAIN out_values = DOMAIN h_keys
               /\ {out_values[i] : i \in DOMAIN out_values} = DOMAIN h_keys
               /\ \A i \in DOMAIN out_values : out_keys[i] = h_keys[out_values[i]]

\* A key-value sort completed after global waves that finalized pivots, with
\* duplicate keys in the input.
C2_Witness ==
    /\ pc = "done"
    /\ ~sortingKeyOnly
    /\ globalLaunched
    /\ numPivots >= 2
    /\ numSeqLocal >= 1
    /\ out_values # [i \in DOMAIN h_keys |-> i]

\* C3: when all input keys are equal, quicksortParallel returns true without
\* launching a global or local partition kernel and without enqueuing a sequence,
\* and the download takes the primary arrays: the output equals the input.
C3_NullDistribution ==
    (AllKeysEqual /\ pc \notin {"start", "error"}) =>
        /\ pc \in {"return", "done"}
        /\ isDistributionZero
        /\ ~globalLaunched
        /\ ~localLaunched
        /\ h_globalSeqHost = <<>>
        /\ h_localSeq = <<>>
        /\ numSeqLocal = 0
        /\ pc = "done" =>
               /\ out_keys = h_keys
               /\ ~sortingKeyOnly => out_values = [i \in DOMAIN h_keys |-> i]

\* A null distribution longer than the global threshold, reduced on the device,
\* was downloaded.
C3_Witness ==
    /\ pc = "done"
    /\ AllKeysEqual
    /\ arrayLength > thresholdPartitionGlobal
    /\ arrayLength > tpl.thresholdParallelReduction

\* C4: when quicksortParallel has returned (and no kernel faulted), the arrays that
\* memoryCopyAfterSort downloads hold at every index the key of that rank of the
\* input, and in key-value mode a value that came with that key.
C4_DownloadHoldsSorted ==
    (pc = "return" /\ ~sticky) =>
        \A i \in Indices :
            /\ DownloadKeys[i] = SortedKeyAt(i)
            /\ ~sortingKeyOnly =>
                   /\ DownloadValues[i] \in Indices
                   /\ h_keys[DownloadValues[i]] = DownloadKeys[i]

\* quicksortParallel returned after at least two global waves: pivots were
\* finalized, a local sequence reads the primary array again, and the primary
\* array differs from the buffer at some index.
C4_Witness ==
    /\ pc = "return"
    /\ ~sticky
    /\ ~isDistributionZero
    /\ numPivots >= 1
    /\ \E k \in 1 .. numSeqLocal :
           /\ h_localSeq[k].direction = "PRIMARY_MEM_TO_BUFFER"
           /\ h_localSeq[k].length < arrayLength
    /\ \E i \in Indices : d_keys[i] # d_keysBuffer[i]

\* The live sequences after a dispatcher step.
LiveSeqs ==
    [k \in 1 .. (numSeqGlobal + numSeqLocal) |->
        IF k <= numSeqGlobal
        THEN [start |-> h_globalSeqHost[k].start, length |-> h_globalSeqHost[k].length]
        ELSE [start |-> h_localSeq[k - numSeqGlobal].start,
              length |-> h_localSeq[k - numSeqGlobal].length]]

RECURSIVE SumLengths(_, _)
SumLengths(seqs, k) ==
    IF k > Len(seqs) THEN 0 ELSE seqs[k].length + SumLengths(seqs, k + 1)

\* C5: after every global wave and its dispatcher step, the next wave's global
\* sequences and the local sequences cover non-empty, pairwise disjoint index
\* ranges of the array, and their lengths plus the number of indices finalized as
\* pivots add up to the array length.
C5_DisjointCoverage ==
    (pc = "loop" /\ globalLaunched) =>
        /\ numSeqGlobal = Len(h_globalSeqHost)
        /\ numSeqLocal = Len(h_localSeq)
        /\ \A k \in DOMAIN LiveSeqs :
               /\ LiveSeqs[k].length >= 1
               /\ LiveSeqs[k].start >= 0
               /\ LiveSeqs[k].start + LiveSeqs[k].length <= arrayLength
        /\ \A k, m \in DOMAIN LiveSeqs :
               k < m =>
                   \/ LiveSeqs[k].start + LiveSeqs[k].length <= LiveSeqs[m].start
                   \/ LiveSeqs[m].start + LiveSeqs[m].length <= LiveSeqs[k].start
        /\ SumLengths(LiveSeqs, 1) + numPivots = arrayLength

\* A dispatcher step left a global sequence for the next wave, a local sequence
\* and a finalized pivot region.
C5_Witness ==
    /\ pc = "loop"
    /\ globalLaunched
    /\ generateSequences
    /\ numSeqGlobal >= 1
    /\ numSeqLocal >= 1
    /\ numPivots >= 1

\* Every thread block of the running wave has exited.
WaveDone == pc = "wave" /\ \A b \in DOMAIN blocks : blocks[b].pc = "done"

\* The three regions of sequence seq after its wave: the front holds keys for which
\* front(key, pivot) holds, the back keys for which back(key, pivot) holds (both on
\* the output side), and the buffer holds the pivot in between.
Partitioned(seq, front(_, _), back(_, _)) ==
    LET out == OutputKeys(seq.direction)
        lowerEnd == seq.start + seq.offsetLower
        greaterStart == seq.start + seq.length - seq.offsetGreater
    IN \A i \in Indices :
           /\ (seq.start <= i /\ i < lowerEnd) => front(out[i], seq.pivot)
           /\ (greaterStart <= i /\ i < seq.start + seq.length) => back(out[i], seq.pivot)
           /\ (lowerEnd <= i /\ i < greaterStart) => d_keysBuffer[i] = seq.pivot

Less(a, b) == a < b
More(a, b) == a > b

C7_GlobalIffLong ==
    /\ globalLaunched => arrayLength > thresholdPartitionGlobal
    /\ (~isDistributionZero /\ pc \in {"localkernel", "return", "done"}) =>
           IF arrayLength <= thresholdPartitionGlobal
           THEN /\ ~globalLaunched
                /\ initSeqEnqueued
                /\ numSeqLocal = 1
                /\ h_localSeq = <<[start |-> 0, length |-> arrayLength,
                                   direction |-> "PRIMARY_MEM_TO_BUFFER"]>>
           ELSE /\ globalLaunched
                /\ ~initSeqEnqueued

\* A non-null input one element longer than the global threshold was sorted.
C7_Witness ==
    /\ pc = "done"
    /\ ~isDistributionZero
    /\ arrayLength = thresholdPartitionGlobal + 1
    /\ globalLaunched
    /\ localLaunched

\* C8: the records written to the local list and to the global host buffer never
\* exceed maxNumSequences, the allocated length of those arrays.
C8_SequenceCapacity ==
    /\ numSeqLocal <= maxNumSequences
    /\ Len(h_localSeq) <= maxNumSequences
    /\ numSeqGlobal <= maxNumSequences
    /\ Len(h_globalSeqHost) <= maxNumSequences

\* C9: in every global wave the number of thread blocks, the length of the
\* block-to-sequence vector, is at most maxNumThreadBlocks, its allocated length.
C9_BlockCapacity ==
    /\ Len(h_globalSeqIndexes) <= maxNumThreadBlocks
    /\ Len(blocks) <= maxNumThreadBlocks

\* A wave after the first is running with at least two thread blocks.
C9_Witness ==
    /\ pc = "wave"
    /\ Len(h_globalSeqIndexes) >= 2
    /\ \E s \in DOMAIN d_globalSeqDev : d_globalSeqDev[s].length < arrayLength

\* C10: no copy or launch is issued after a copy or launch of the sort call failed.
C10_NoOperationAfterFailure == ~issuedAfterFailure

\* The range reduction has returned.
Reduced == pc \in {"loop", "wave", "localkernel", "return", "done"}

\* C11: when minMaxReduction has returned, minVal is the smallest and maxVal the
\* largest key of the input, on the host path and on the device path alike.
C11_TrueMinMax ==
    Reduced =>
        /\ \E i \in DOMAIN h_keys : h_keys[i] = minVal
        /\ \E i \in DOMAIN h_keys : h_keys[i] = maxVal
        /\ \A i \in DOMAIN h_keys : minVal <= h_keys[i] /\ h_keys[i] <= maxVal

\* The device path returned with several thread blocks, the smallest key outside
\* the chunk of the first block and the largest key outside the chunk of the last.
C11_Witness ==
    /\ Reduced
    /\ arrayLength > tpl.thresholdParallelReduction
    /\ reductionGridDim >= 2
    /\ h_minMaxValues[1] # minVal
    /\ h_minMaxValues[2 * reductionGridDim] # maxVal

\* The children of the wave that was harvested last, in the order the dispatcher
\* walks them: child 2s-1 is the lower and child 2s the greater child of parent s.
ChildParent(j) == h_globalSeqDev[(j + 1) \div 2]
ChildCount(j) ==
    IF j % 2 = 1 THEN ChildParent(j).offsetLower ELSE ChildParent(j).offsetGreater
ChildStart(j) ==
    IF j % 2 = 1 THEN ChildParent(j).start
    ELSE ChildParent(j).start + ChildParent(j).length - ChildParent(j).offsetGreater
Children == 1 .. (2 * Len(h_globalSeqDev))

\* The number of children before child j that are longer than the threshold: while
\* it is below numSeqLimit it is the number of sequences already pushed onto the
\* global list when the dispatcher reaches child j.
LongBefore(j) ==
    Cardinality({m \in Children : m < j /\ ChildCount(m) > thresholdPartitionGlobal})
GoesGlobal(j) ==
    ChildCount(j) > thresholdPartitionGlobal /\ LongBefore(j) < numSeqLimit
InList(list, j) ==
    \E k \in DOMAIN list :
        list[k].start = ChildStart(j) /\ list[k].length = ChildCount(j)

LocalRange(k) ==
    {i \in Indices : h_localSeq[k].start <= i
                       /\ i < h_localSeq[k].start + h_localSeq[k].length}

\* C13: when the local kernel is launched after global waves, no sequence is left
\* in the global list, no index is in two local sequences, and the indices in no
\* local sequence are as many as were finalized as pivots.
C13_DrainedToLocal ==
    (localLaunched /\ globalLaunched) =>
        /\ numSeqGlobal = 0
        /\ h_globalSeqHost = <<>>
        /\ numSeqLocal = Len(h_localSeq)
        /\ \A k, m \in 1 .. numSeqLocal : k # m => LocalRange(k) \cap LocalRange(m) = {}
        /\ \A k \in 1 .. numSeqLocal : Cardinality(LocalRange(k)) = h_localSeq[k].length
        /\ Cardinality(Indices \ UNION {LocalRange(k) : k \in 1 .. numSeqLocal})
               = numPivots

\* The local kernel is launched after a last wave of two sequences, with several
\* local sequences and finalized pivots.
C13_Witness ==
    /\ localLaunched
    /\ globalLaunched
    /\ pc = "localkernel"
    /\ Len(h_globalSeqDev) >= 2
    /\ numPivots >= 1
    /\ numSeqLocal >= 2

\* The host has left the global wave loop (or the call has ended before it).
GlobalLoopExited == pc \in {"localkernel", "return", "done", "error", "crashed"}

\* C14: the global wave loop of every sort call ends after finitely many waves.
C14_Termination == <>GlobalLoopExited

\* The thread blocks of the running wave that idx assigns to sequence s (0-based).
BlocksOf(s) == {b \in DOMAIN h_globalSeqIndexes : h_globalSeqIndexes[b] = s}

\* C15: in every global wave idx is non-decreasing; sequence s has at least one
\* block and just as many as cover its length in chunks of elemsPerThreadBlock;
\* its first block index is the number of blocks of the sequences before it; its
\* blocks are the consecutive indices from there; and the grid has one block per
\* entry of idx.
C15_BlockVector ==
    pc = "wave" =>
        /\ Len(d_globalSeqDev) = numSeqGlobal
        /\ Len(blocks) = Len(h_globalSeqIndexes)
        /\ \A b \in DOMAIN h_globalSeqIndexes :
               /\ h_globalSeqIndexes[b] \in 0 .. (numSeqGlobal - 1)
               /\ (b + 1) \in DOMAIN h_globalSeqIndexes =>
                      h_globalSeqIndexes[b] <= h_globalSeqIndexes[b + 1]
        /\ \A s \in 0 .. (numSeqGlobal - 1) :
               LET seq == d_globalSeqDev[s + 1]
                   n == Cardinality(BlocksOf(s))
                   first == Cardinality({b \in DOMAIN h_globalSeqIndexes :
                                            h_globalSeqIndexes[b] < s})
               IN /\ n >= 1
                  /\ (n - 1) * elemsPerThreadBlock < seq.length
                  /\ seq.length <= n * elemsPerThreadBlock
                  /\ seq.startThreadBlockIdx = first
                  \* blocks are numbered from 1 here, from 0 in the program
                  /\ BlocksOf(s) = (first + 1) .. (first + n)

\* A wave of two sequences, the second of several blocks, the last of them with
\* a chunk shorter than elemsPerThreadBlock.
C15_Witness ==
    /\ pc = "wave"
    /\ numSeqGlobal >= 2
    /\ Cardinality(BlocksOf(1)) >= 2
    /\ d_globalSeqDev[2].length % elemsPerThreadBlock # 0

\* The number of keys the wave found in sequence seq for which side(key, pivot)
\* holds.
KeysOnSide(seq, side(_, _)) ==
    Cardinality({i \in Indices : /\ seq.start <= i
                                  /\ i < seq.start + seq.length
                                  /\ side(waveKeys[i], seq.pivot)})

\* Last-block handoff for the comparisons front and back of the two counters: at
\* most one block of a sequence saw the blocks-remaining counter reach zero, and
\* when one did, every block of the sequence has exited; when the wave is over
\* exactly one did, and the counters the host reads back are the numbers of keys
\* of the sequence on each side of the pivot.
LastBlockHandoff(front(_, _), back(_, _)) ==
    pc = "wave" =>
        \A s \in DOMAIN d_globalSeqDev :
            LET seq == d_globalSeqDev[s]
                mine == {b \in DOMAIN blocks : h_globalSeqIndexes[b] = s - 1}
                last == {b \in mine : blocks[b].last}
            IN /\ Cardinality(last) <= 1
               /\ last # {} => \A b \in mine : blocks[b].pc = "done"
               /\ WaveDone =>
                      /\ Cardinality(last) = 1
                      /\ seq.offsetLower = KeysOnSide(seq, front)
                      /\ seq.offsetGreater = KeysOnSide(seq, back)

C17_LocalFitsBlock ==
    /\ \A k \in DOMAIN h_localSeq :
           /\ 1 <= h_localSeq[k].length
           /\ h_localSeq[k].length <= thresholdPartitionGlobal
    /\ (pc = "loop" /\ globalLaunched) => numSeqGlobal < numSeqLimit

\* A dispatcher step left a sequence in the global list while the local list
\* holds a record of exactly thresholdPartitionGlobal keys.
C17_Witness ==
    /\ pc = "loop"
    /\ globalLaunched
    /\ numSeqGlobal >= 1
    /\ \E k \in DOMAIN h_localSeq : h_localSeq[k].length = thresholdPartitionGlobal

\* C18: the pivot of every sequence of a wave whose key range is not a single key
\* is at least the smallest and below the largest key of the range.
C18_PivotBounds ==
    pc = "wave" =>
        \A s \in DOMAIN d_globalSeqDev :
            h_globalSeqHost[s].minVal < h_globalSeqHost[s].maxVal =>
                /\ h_globalSeqHost[s].minVal <= d_globalSeqDev[s].pivot
                /\ d_globalSeqDev[s].pivot < h_globalSeqHost[s].maxVal

\* C19: when the local kernel has been launched, the local list is not empty.
C19_LocalListNonEmpty == localLaunched => numSeqLocal >= 1

\* C20: the values minMaxReduction copies to h_minMaxValues are no more than the
\* array can hold.
C20_MinMaxCapacity == Len(h_minMaxValues) <= minMaxCapacity

====
